---- MODULE Spec2Model ----
(***************************************************************************)
(* A state-machine model of analyze_a2a.py: one run of main() is a chain   *)
(* of stages (residue-name lookup, analysis, head statistics table,        *)
(* significance test, head selection, attention aggregation, percentile    *)
(* report, mean map, persistence of the two torch artifacts).  The output  *)
(* directory (the three files) outlives a run.                             *)
(*                                                                         *)
(* Real numbers are scaled integers: impact, SNR and p-values are in units *)
(* of 1/10000 (2.0 is 20000, 0.01 is 100); accumulated-attention values    *)
(* are integers and the percentile threshold is kept in units of 1/100.    *)
(* A NaN p-value (scipy's answer for a zero-variance population) is the    *)
(* value NaN, for which every ordered comparison is false.                 *)
(***************************************************************************)
EXTENDS Integers, Sequences, FiniteSets, TLC

VARIABLES
    pc,                    \* the stage main() is about to execute
    failure,               \* "none", or the exception that ended the run
    allosteric_res,        \* line 21
    allosteric_res_3l,     \* line 25
    impact_scores,         \* results["impacts"], a rank-2 grid
    snr_values,            \* results["snrs"], a rank-2 grid
    num_layers, num_heads, \* line 48
    head_stats,            \* line 53
    t_stats,               \* line 68
    sensitive_heads,       \* line 76
    accumulated_attention, \* line 91, a dict position -> value
    percentile_85,         \* line 100, in units of 1/100
    mean_attention_map,    \* line 119
    dir_exists,            \* attention_data/ exists (line 88)
    csv_file,              \* accumulated_attention_a2a.csv: its rows, <<>> when absent
    heads_file,            \* sensitive_heads.pt
    maps_file,             \* sensitive_attention_maps.pt
    written,               \* the artifacts the current run has written
    stages,                \* the pipeline stages the current run has entered, in order
    runs                   \* how many runs of main() have been started

vars == <<pc, failure, allosteric_res, allosteric_res_3l, impact_scores, snr_values,
          num_layers, num_heads, head_stats, t_stats, sensitive_heads,
          accumulated_attention, percentile_85, mean_attention_map, dir_exists,
          csv_file, heads_file, maps_file, written, stages, runs>>

(***************************************************************************)
(* Bounds of the model.                                                    *)
(***************************************************************************)
MaxLayers == 2
MaxHeads == 2
MaxCells == 4
MaxKeys == 3
MaxRuns == 2

(***************************************************************************)
(* Program constants.                                                      *)
(***************************************************************************)
\* line 20: the adenosine A2A receptor sequence
sequence == <<
    "M", "P", "I", "M", "G", "S", "S", "V", "Y", "I", "T", "V", "E", "L", "A", "I", "A", "V", "L", "A",
    "I", "L", "G", "N", "V", "L", "V", "C", "W", "A", "V", "W", "L", "N", "S", "N", "L", "Q", "N", "V",
    "T", "N", "Y", "F", "V", "V", "S", "A", "A", "A", "A", "D", "I", "L", "V", "G", "V", "L", "A", "I",
    "P", "F", "A", "I", "A", "I", "S", "T", "G", "F", "C", "A", "A", "C", "H", "G", "C", "L", "F", "I",
    "A", "C", "F", "V", "L", "V", "L", "T", "A", "S", "S", "I", "F", "S", "L", "L", "A", "I", "A", "I",
    "D", "R", "Y", "I", "A", "I", "R", "I", "P", "L", "R", "Y", "N", "G", "L", "V", "T", "G", "T", "R",
    "A", "K", "G", "I", "I", "A", "I", "C", "W", "V", "L", "S", "F", "A", "I", "G", "L", "T", "P", "M",
    "L", "G", "W", "N", "N", "C", "G", "Q", "P", "K", "E", "G", "K", "A", "H", "S", "Q", "G", "C", "G",
    "E", "G", "Q", "V", "A", "C", "L", "F", "E", "D", "V", "V", "P", "M", "N", "Y", "M", "V", "Y", "F",
    "N", "F", "F", "A", "C", "V", "L", "V", "P", "L", "L", "L", "M", "L", "G", "V", "Y", "L", "R", "I",
    "F", "L", "A", "A", "R", "R", "Q", "L", "K", "Q", "M", "E", "S", "Q", "P", "L", "P", "G", "E", "R",
    "A", "R", "S", "T", "L", "Q", "K", "E", "V", "H", "A", "A", "K", "S", "L", "A", "I", "I", "V", "G",
    "L", "F", "A", "L", "C", "W", "L", "P", "L", "H", "I", "I", "N", "C", "F", "T", "F", "F", "C", "P",
    "D", "C", "S", "H", "A", "P", "L", "W", "L", "M", "Y", "L", "A", "I", "V", "L", "S", "H", "T", "N",
    "S", "V", "V", "N", "P", "F", "I", "Y", "A", "Y", "R", "I", "R", "E", "F", "R", "Q", "T", "F", "R",
    "K", "I", "I", "R", "S", "H", "V", "L", "R", "Q", "Q", "E", "P", "F", "K", "A", "A", "A", "A", "E",
    "N", "L", "Y", "F", "Q" >>

\* line 21
A2A_SITES == <<169, 253, 277, 278>>

\* line 26: Bio.Data.IUPACData.protein_letters_1to3
one_to_three ==
    [c \in {"A", "C", "D", "E", "F", "G", "H", "I", "K", "L",
            "M", "N", "P", "Q", "R", "S", "T", "V", "W", "Y"} |->
        CASE c = "A" -> "Ala" [] c = "C" -> "Cys" [] c = "D" -> "Asp"
          [] c = "E" -> "Glu" [] c = "F" -> "Phe" [] c = "G" -> "Gly"
          [] c = "H" -> "His" [] c = "I" -> "Ile" [] c = "K" -> "Lys"
          [] c = "L" -> "Leu" [] c = "M" -> "Met" [] c = "N" -> "Asn"
          [] c = "P" -> "Pro" [] c = "Q" -> "Gln" [] c = "R" -> "Arg"
          [] c = "S" -> "Ser" [] c = "T" -> "Thr" [] c = "V" -> "Val"
          [] c = "W" -> "Trp" [] c = "Y" -> "Tyr"]

\* line 78: p_val < 0.01, in units of 1/10000
P_THRESHOLD == 100
\* line 78: snr > 2.0, in units of 1/10000
SNR_THRESHOLD == 20000
\* line 100: np.percentile(attention_values, 95)
PERCENTILE_Q == 95
\* line 105
CSV_HEADER == <<"Residue", "Position", "AvgAccAtt">>

\* a NaN p-value (line 70: ttest_1samp on a zero-variance population)
NaN == -1

(***************************************************************************)
(* Helpers: Python and torch indexing, sorting, numpy's percentile.        *)
(***************************************************************************)
Range(s) == {s[k] : k \in DOMAIN s}

Min(S) == CHOOSE x \in S : \A y \in S : x <= y

\* s[idx] on a Python str or list raises IndexError outside -len(s) .. len(s)-1
PyIndexOK(s, idx) == idx >= -Len(s) /\ idx < Len(s)

\* s[idx] on a Python str or list: a negative index counts from the end
PyIndex(s, idx) == IF idx >= 0 THEN s[idx + 1] ELSE s[Len(s) + idx + 1]

\* sorted(keys): the ascending list of a set of integers
RECURSIVE SortedKeys(_)
SortedKeys(S) ==
    IF S = {} THEN <<>>
    ELSE LET k == Min(S) IN <<k>> \o SortedKeys(S \ {k})

\* the values of a dict in ascending order (np.percentile sorts its input)
RECURSIVE SortedValues(_)
SortedValues(m) ==
    IF DOMAIN m = {} THEN <<>>
    ELSE LET k == CHOOSE x \in DOMAIN m : \A y \in DOMAIN m : m[x] <= m[y]
         IN <<m[k]>> \o SortedValues([x \in DOMAIN m \ {k} |-> m[x]])

\* Percentile100 without the interpolation (numpy's method "lower")
Percentile100_NoInterp(values, q) ==
    LET v == SortedValues(values)
    IN 100 * v[(q * (Len(v) - 1)) \div 100 + 1]

\* np.percentile(values, q), method "linear", in units of 1/100: the virtual
\* index q/100*(n-1), its floor and the fraction gamma, the next index clipped
\* to n-1, and numpy's lerp (a + (b-a)*gamma, or b - (b-a)*(1-gamma) from 0.5 on)
Percentile100(values, q) ==
    LET v == SortedValues(values)
        n == Len(v)
        virtual100 == q * (n - 1)
        previous == virtual100 \div 100
        gamma100 == virtual100 % 100
        next == IF previous + 1 > n - 1 THEN n - 1 ELSE previous + 1
        a == v[previous + 1]
        b == v[next + 1]
    IN IF gamma100 >= 50 THEN 100 * b - (b - a) * (100 - gamma100)
       ELSE 100 * a + (b - a) * gamma100

\* ExceedsPercentile with the comparison not strict
ExceedsPercentile_NonStrict(avg_attention, threshold100) ==
    100 * avg_attention >= threshold100

\* avg_attention > percentile_85 (line 109), the threshold in units of 1/100
ExceedsPercentile(avg_attention, threshold100) == 100 * avg_attention > threshold100

\* a rank-2 tensor: its shape and its cells, indexed from 0
EmptyGrid == [layers |-> 0, heads |-> 0, val |-> <<>>]

Grids(Shapes, Vals) ==
    UNION {{[layers |-> s[1], heads |-> s[2], val |-> v] :
                v \in [(0 .. s[1] - 1) \X (0 .. s[2] - 1) -> Vals]} : s \in Shapes}

\* tensor[layer][head] raises IndexError outside the tensor's shape
InGrid(g, layer, head) == layer < g.layers /\ head < g.heads

\* for layer in range(num_layers): for head in range(num_heads) (lines 54-55)
RowMajor(L, H) == [k \in 1 .. L * H |-> <<(k - 1) \div H, (k - 1) % H>>]

\* IsSensitive with the SNR comparison not strict
IsSensitive_NonStrict(p_val, snr) ==
    p_val # NaN /\ p_val < P_THRESHOLD /\ snr >= SNR_THRESHOLD

\* p_val < 0.01 and snr > 2.0 (line 78); a NaN p-value compares false
IsSensitive(p_val, snr) == p_val # NaN /\ p_val < P_THRESHOLD /\ snr > SNR_THRESHOLD

\* the list comprehension of lines 76-79
SelectHeads(ts) ==
    LET Keep(t) == IsSensitive(t[5], t[4])
        kept == SelectSeq(ts, Keep)
    IN [k \in 1 .. Len(kept) |-> <<kept[k][1], kept[k][2]>>]

\* attention_maps[0, l, h]: the map of one head, named by the head it belongs to
AttnMap(lh) == [layer |-> lh[1], head |-> lh[2]]

\* StackMaps with the maps in the reverse of the list's order
StackMaps_Reversed(heads) ==
    [k \in 1 .. Len(heads) |-> AttnMap(heads[Len(heads) + 1 - k])]

\* the list of maps of lines 118 and 146, one per head of the list, in its order
StackMaps(heads) == [k \in 1 .. Len(heads) |-> AttnMap(heads[k])]

\* the rows the loop of lines 107-111 writes before it ends or raises:
\* keys in sorted order, a row for each value above the threshold
RECURSIVE ReportRows(_, _, _)
ReportRows(keys, m, threshold100) ==
    IF keys = <<>> THEN [rows |-> <<>>, ok |-> TRUE]
    ELSE LET i == Head(keys) IN
         IF ~ExceedsPercentile(m[i], threshold100)
         THEN ReportRows(Tail(keys), m, threshold100)
         ELSE IF ~PyIndexOK(sequence, i - 1)
         THEN [rows |-> <<>>, ok |-> FALSE]
         ELSE LET rest == ReportRows(Tail(keys), m, threshold100)
              IN [rows |-> <<<<PyIndex(sequence, i - 1), i, m[i]>>>> \o rest.rows,
                  ok |-> rest.ok]

NoHeadsFile == [exists |-> FALSE, sensitive_heads |-> <<>>,
                impact_scores |-> <<>>, snr_values |-> <<>>]

\* head_info of lines 138-142; the key f"{l}_{h}" is kept as the pair (l, h)
HeadInfo(heads, impacts, snrs) ==
    [exists |-> TRUE,
     sensitive_heads |-> heads,
     impact_scores |-> [lh \in Range(heads) |-> impacts.val[lh]],
     snr_values |-> [lh \in Range(heads) |-> snrs.val[lh]]]

(***************************************************************************)
(* Inputs: what the caller and the collaborators may supply.               *)
(***************************************************************************)
ImpactVals == {10000, 50000}
SnrVals == {20000, 20001}
PVals == {NaN, 99, 100}

Shapes == {s \in (1 .. MaxLayers) \X (1 .. MaxHeads) : s[1] * s[2] <= MaxCells}

\* site lists: the program's own, and lists on and beyond the ends of the sequence
SiteLists == {A2A_SITES, <<0>>, <<1 - Len(sequence)>>, << -Len(sequence)>>,
              <<Len(sequence) + 1>>, <<169, Len(sequence) + 1>>}

Mappings(Keys, Vals, maxKeys) ==
    UNION {[K -> Vals] : K \in {S \in SUBSET Keys : Cardinality(S) <= maxKeys}}

\* mappings that honour the collaborator's contract: non-empty, keys in 1..len
ContractMappings == {[k \in {1, 2, Len(sequence)} |-> IF k = 2 THEN 3 ELSE 1],
                     [k \in {1, 2} |-> 2]}

\* the 20 evenly spaced values 1..20
Ramp20 == [k \in 1 .. 20 |-> k]

KeyPool == { -Len(sequence), 0, 1, 2, Len(sequence), Len(sequence) + 1}
ValPool == {1, 2, 3}
AnyMappings == Mappings(KeyPool, ValPool, MaxKeys) \cup {Ramp20}

(***************************************************************************)
(* The state at the start of main().                                       *)
(***************************************************************************)
RunStart(sites) ==
    /\ pc = "lookup"
    /\ failure = "none"
    /\ allosteric_res = sites
    /\ allosteric_res_3l = <<>>
    /\ impact_scores = EmptyGrid
    /\ snr_values = EmptyGrid
    /\ num_layers = 0
    /\ num_heads = 0
    /\ head_stats = <<>>
    /\ t_stats = <<>>
    /\ sensitive_heads = <<>>
    /\ accumulated_attention = <<>>
    /\ percentile_85 = 0
    /\ mean_attention_map = {}
    /\ written = {}
    /\ stages = <<>>

InitWith(SL) ==
    /\ \E sites \in SL : RunStart(sites)
    /\ dir_exists = FALSE
    /\ csv_file = <<>>
    /\ heads_file = NoHeadsFile
    /\ maps_file = <<>>
    /\ runs = 1

Init == InitWith(SiteLists)

\* an uncaught exception ends the run
Raise(e) == pc' = "failed" /\ failure' = e

(***************************************************************************)
(* The stages of main().                                                   *)
(***************************************************************************)
\* lines 25-28: the three-letter name of each allosteric residue
LookupResidues ==
    /\ pc = "lookup"
    /\ LET n == Len(allosteric_res)
           bad == {k \in 1 .. n : ~PyIndexOK(sequence, allosteric_res[k] - 1)}
           stop == IF bad = {} THEN n ELSE Min(bad) - 1
       IN /\ allosteric_res_3l' =
                 [k \in 1 .. stop |->
                     one_to_three[PyIndex(sequence, allosteric_res[k] - 1)]]
          /\ IF bad = {} THEN pc' = "analyze" /\ failure' = failure
             ELSE Raise("IndexError")
    /\ UNCHANGED <<allosteric_res, impact_scores, snr_values, num_layers, num_heads,
                   head_stats, t_stats, sensitive_heads, accumulated_attention,
                   percentile_85, mean_attention_map, dir_exists, csv_file,
                   heads_file, maps_file, written, stages, runs>>

\* lines 36-48: the collaborator returns the two grids; both are rank 2, and
\* the shape is read off the impact grid alone
AnalyzeProtein(IG, SG) ==
    /\ pc = "analyze"
    /\ \E im \in IG, sn \in SG :
          /\ impact_scores' = im
          /\ snr_values' = sn
          /\ num_layers' = im.layers
          /\ num_heads' = im.heads
    /\ pc' = "table"
    /\ UNCHANGED <<failure, allosteric_res, allosteric_res_3l, head_stats, t_stats,
                   sensitive_heads, accumulated_attention, percentile_85,
                   mean_attention_map, dir_exists, csv_file, heads_file, maps_file,
                   written, stages, runs>>

\* lines 53-58: one record per cell of the impact grid, in row-major order; the
\* read of the SNR grid raises at the first cell outside its shape
BuildHeadStats ==
    /\ pc = "table"
    /\ LET cells == RowMajor(num_layers, num_heads)
           bad == {k \in DOMAIN cells : ~InGrid(snr_values, cells[k][1], cells[k][2])}
           stop == IF bad = {} THEN Len(cells) ELSE Min(bad) - 1
       IN /\ head_stats' =
                 [k \in 1 .. stop |->
                     <<cells[k][1], cells[k][2],
                       impact_scores.val[cells[k]], snr_values.val[cells[k]]>>]
          /\ IF bad = {} THEN pc' = "ttest" /\ failure' = failure
             ELSE Raise("IndexError")
    /\ stages' = Append(stages, 1)
    /\ UNCHANGED <<allosteric_res, allosteric_res_3l, impact_scores, snr_values,
                   num_layers, num_heads, t_stats, sensitive_heads,
                   accumulated_attention, percentile_85, mean_attention_map,
                   dir_exists, csv_file, heads_file, maps_file, written, runs>>

\* lines 66-71: ttest_1samp(impacts, impact, alternative='less') per head; the
\* population is the same for every head, so the p-value is a function of the
\* head's impact
TTest(PV) ==
    /\ pc = "ttest"
    /\ \E p \in [{s[3] : s \in Range(head_stats)} -> PV] :
          t_stats' = [k \in DOMAIN head_stats |->
                         <<head_stats[k][1], head_stats[k][2], head_stats[k][3],
                           head_stats[k][4], p[head_stats[k][3]]>>]
    /\ stages' = Append(stages, 2)
    /\ pc' = "select"
    /\ UNCHANGED <<failure, allosteric_res, allosteric_res_3l, impact_scores,
                   snr_values, num_layers, num_heads, head_stats, sensitive_heads,
                   accumulated_attention, percentile_85, mean_attention_map,
                   dir_exists, csv_file, heads_file, maps_file, written, runs>>

\* Select going on to the report without the aggregation in between
Select_ToReport ==
    /\ pc = "select"
    /\ sensitive_heads' = SelectHeads(t_stats)
    /\ stages' = Append(stages, 3)
    /\ pc' = "report"
    /\ UNCHANGED <<failure, allosteric_res, allosteric_res_3l, impact_scores,
                   snr_values, num_layers, num_heads, head_stats, t_stats,
                   accumulated_attention, percentile_85, mean_attention_map,
                   dir_exists, csv_file, heads_file, maps_file, written, runs>>

\* lines 73-83: the sensitive heads
Select ==
    /\ pc = "select"
    /\ sensitive_heads' = SelectHeads(t_stats)
    /\ stages' = Append(stages, 3)
    /\ pc' = "aggregate"
    /\ UNCHANGED <<failure, allosteric_res, allosteric_res_3l, impact_scores,
                   snr_values, num_layers, num_heads, head_stats, t_stats,
                   accumulated_attention, percentile_85, mean_attention_map,
                   dir_exists, csv_file, heads_file, maps_file, written, runs>>

\* lines 85-96: the attention maps, the output directory, and the collaborator's
\* accumulated average attention
Aggregate(MS) ==
    /\ pc = "aggregate"
    /\ dir_exists' = TRUE
    /\ \E m \in MS : accumulated_attention' = m
    /\ stages' = Append(stages, 4)
    /\ pc' = "report"
    /\ UNCHANGED <<failure, allosteric_res, allosteric_res_3l, impact_scores,
                   snr_values, num_layers, num_heads, head_stats, t_stats,
                   sensitive_heads, percentile_85, mean_attention_map, csv_file,
                   heads_file, maps_file, written, runs>>

\* lines 98-113: the percentile (np.percentile raises IndexError on an empty
\* list, before the file is opened), then the file: opened for writing, the
\* header, and the rows; a residue lookup that raises leaves the rows written
\* so far
Report ==
    /\ pc = "report"
    /\ stages' = Append(stages, 5)
    /\ IF DOMAIN accumulated_attention = {}
       THEN /\ Raise("IndexError")
            /\ UNCHANGED <<percentile_85, csv_file, written>>
       ELSE LET threshold100 == Percentile100(accumulated_attention, PERCENTILE_Q)
                out == ReportRows(SortedKeys(DOMAIN accumulated_attention),
                                  accumulated_attention, threshold100)
            IN /\ percentile_85' = threshold100
               /\ csv_file' = <<CSV_HEADER>> \o out.rows
               /\ written' = written \cup {"csv"}
               /\ IF out.ok THEN pc' = "meanmap" /\ failure' = failure
                  ELSE Raise("IndexError")
    /\ UNCHANGED <<allosteric_res, allosteric_res_3l, impact_scores, snr_values,
                   num_layers, num_heads, head_stats, t_stats, sensitive_heads,
                   accumulated_attention, mean_attention_map, dir_exists,
                   heads_file, maps_file, runs>>

\* MeanMap without the guard of line 117: torch.stack raises on an empty list
MeanMap_Unguarded ==
    /\ pc = "meanmap"
    /\ stages' = Append(stages, 6)
    /\ IF sensitive_heads # <<>>
       THEN /\ mean_attention_map' = Range(StackMaps(sensitive_heads))
            /\ pc' = "persist_heads"
            /\ failure' = failure
       ELSE /\ Raise("RuntimeError")
            /\ UNCHANGED mean_attention_map
    /\ UNCHANGED <<allosteric_res, allosteric_res_3l, impact_scores,
                   snr_values, num_layers, num_heads, head_stats, t_stats,
                   sensitive_heads, accumulated_attention, percentile_85,
                   dir_exists, csv_file, heads_file, maps_file, written, runs>>

\* lines 117-124: the mean of the sensitive heads' maps, when there are any
MeanMap ==
    /\ pc = "meanmap"
    /\ IF sensitive_heads # <<>>
       THEN /\ mean_attention_map' = Range(StackMaps(sensitive_heads))
            /\ stages' = Append(stages, 6)
       ELSE UNCHANGED <<mean_attention_map, stages>>
    /\ pc' = "persist_heads"
    /\ UNCHANGED <<failure, allosteric_res, allosteric_res_3l, impact_scores,
                   snr_values, num_layers, num_heads, head_stats, t_stats,
                   sensitive_heads, accumulated_attention, percentile_85,
                   dir_exists, csv_file, heads_file, maps_file, written, runs>>

\* lines 138-143: sensitive_heads.pt, always
PersistHeads ==
    /\ pc = "persist_heads"
    /\ heads_file' = HeadInfo(sensitive_heads, impact_scores, snr_values)
    /\ written' = written \cup {"heads"}
    /\ stages' = Append(stages, 7)
    /\ pc' = "persist_maps"
    /\ UNCHANGED <<failure, allosteric_res, allosteric_res_3l, impact_scores,
                   snr_values, num_layers, num_heads, head_stats, t_stats,
                   sensitive_heads, accumulated_attention, percentile_85,
                   mean_attention_map, dir_exists, csv_file, maps_file, runs>>

\* lines 145-150: sensitive_attention_maps.pt, when there are sensitive heads
PersistMaps ==
    /\ pc = "persist_maps"
    /\ IF sensitive_heads # <<>>
       THEN /\ maps_file' = StackMaps(sensitive_heads)
            /\ written' = written \cup {"maps"}
       ELSE UNCHANGED <<maps_file, written>>
    /\ pc' = "done"
    /\ UNCHANGED <<failure, allosteric_res, allosteric_res_3l, impact_scores,
                   snr_values, num_layers, num_heads, head_stats, t_stats,
                   sensitive_heads, accumulated_attention, percentile_85,
                   mean_attention_map, dir_exists, csv_file, heads_file, stages, runs>>

Next ==
    \/ LookupResidues
    \/ AnalyzeProtein(Grids(Shapes, ImpactVals), Grids(Shapes, SnrVals))
    \/ BuildHeadStats
    \/ TTest(PVals)
    \/ Select
    \/ Aggregate(ContractMappings)
    \/ Report
    \/ MeanMap
    \/ PersistHeads
    \/ PersistMaps

Spec == Init /\ [][Next]_vars

(***************************************************************************)
(* The report stage alone: a small grid, and any mapping the collaborator  *)
(* could hand back, whether or not it honours its contract.                *)
(***************************************************************************)
ReportShapes == {<<1, 1>>}

InitReport == InitWith({A2A_SITES})

NextReport ==
    \/ LookupResidues
    \/ AnalyzeProtein(Grids(ReportShapes, {10000}), Grids(ReportShapes, SnrVals))
    \/ BuildHeadStats
    \/ TTest(PVals)
    \/ Select
    \/ Aggregate(AnyMappings)
    \/ Report
    \/ MeanMap
    \/ PersistHeads
    \/ PersistMaps

SpecReport == InitReport /\ [][NextReport]_vars

(***************************************************************************)
(* Repeated runs into the same output directory, with file-system errors.  *)
(***************************************************************************)
RunsShapes == {<<1, 2>>}

\* open() (line 103) or torch.save (lines 143, 148) raises OSError; the file
\* it was about to write is left as it was
FailWrite ==
    /\ \/ pc = "report" /\ DOMAIN accumulated_attention # {}
       \/ pc = "persist_heads"
       \/ pc = "persist_maps" /\ sensitive_heads # <<>>
    /\ Raise("OSError")
    /\ UNCHANGED <<allosteric_res, allosteric_res_3l, impact_scores, snr_values,
                   num_layers, num_heads, head_stats, t_stats, sensitive_heads,
                   accumulated_attention, percentile_85, mean_attention_map,
                   dir_exists, csv_file, heads_file, maps_file, written, stages, runs>>

\* lines 152-153: the script is run again; the output directory is as it was left
Restart(SL) ==
    /\ pc \in {"done", "failed"}
    /\ runs < MaxRuns
    /\ runs' = runs + 1
    /\ pc' = "lookup"
    /\ failure' = "none"
    /\ \E sites \in SL : allosteric_res' = sites
    /\ allosteric_res_3l' = <<>>
    /\ impact_scores' = EmptyGrid
    /\ snr_values' = EmptyGrid
    /\ num_layers' = 0
    /\ num_heads' = 0
    /\ head_stats' = <<>>
    /\ t_stats' = <<>>
    /\ sensitive_heads' = <<>>
    /\ accumulated_attention' = <<>>
    /\ percentile_85' = 0
    /\ mean_attention_map' = {}
    /\ written' = {}
    /\ stages' = <<>>
    /\ UNCHANGED <<dir_exists, csv_file, heads_file, maps_file>>

InitRuns == InitWith({A2A_SITES})

NextRuns ==
    \/ LookupResidues
    \/ AnalyzeProtein(Grids(RunsShapes, {10000}), Grids(RunsShapes, SnrVals))
    \/ BuildHeadStats
    \/ TTest({99, 100})
    \/ Select
    \/ Aggregate(ContractMappings)
    \/ Report
    \/ MeanMap
    \/ PersistHeads
    \/ PersistMaps
    \/ FailWrite
    \/ Restart({A2A_SITES})

SpecRuns == InitRuns /\ [][NextRuns]_vars

(***************************************************************************)
(* Properties.                                                             *)
(***************************************************************************)
Entered(stage) == stage \in Range(stages)

\* (l1, h1) comes before (l2, h2) in row-major order
RowMajorBefore(a, b) == a[1] < b[1] \/ (a[1] = b[1] /\ a[2] < b[2])

\* the significance the t-test gave head lh
Significance(lh) ==
    LET k == CHOOSE i \in DOMAIN t_stats : t_stats[i][1] = lh[1] /\ t_stats[i][2] = lh[2]
    IN t_stats[k][5]

\* C1: once the selection is made, the sensitive-head list is exactly the set
\* of heads (l, h) of the impact grid with significance < 0.01 and snr > 2.0
\* (both strict; a NaN significance is not below 0.01), listed in row-major
\* order, layer then head ascending, without duplicates.
C1_SelectionExact ==
    Entered(3) =>
        LET cells == (0 .. num_layers - 1) \X (0 .. num_heads - 1)
            want == {lh \in cells : /\ Significance(lh) # NaN
                                    /\ Significance(lh) < 100
                                    /\ snr_values.val[lh] > 20000}
        IN /\ Range(sensitive_heads) = want
           /\ \A i, j \in DOMAIN sensitive_heads :
                 i < j => RowMajorBefore(sensitive_heads[i], sensitive_heads[j])

\* C1 witness: a finished run on a 2 x 2 grid in which a head with snr 2.0 and
\* significance 0.0099 and a head with snr 2.0001 and significance 0.01 are
\* left out, and a head with snr 2.0001 and significance 0.0099 is selected.
C1_Witness ==
    /\ pc = "done"
    /\ num_layers = 2 /\ num_heads = 2
    /\ \E t \in Range(t_stats) : t[4] = 20000 /\ t[5] = 99
                                 /\ <<t[1], t[2]>> \notin Range(sensitive_heads)
    /\ \E t \in Range(t_stats) : t[4] = 20001 /\ t[5] = 100
                                 /\ <<t[1], t[2]>> \notin Range(sensitive_heads)
    /\ \E t \in Range(t_stats) : t[4] = 20001 /\ t[5] = 99
                                 /\ <<t[1], t[2]>> \in Range(sensitive_heads)

\* the mapping is non-empty and every key is a position of the sequence
ValidMapping(m) == DOMAIN m # {} /\ \A k \in DOMAIN m : k >= 1 /\ k <= Len(sequence)

\* the order statistic v_j (j from 0) of the mapping's values
OrderStat(m, j) ==
    CHOOSE x \in Range(m) :
        /\ Cardinality({k \in DOMAIN m : m[k] < x}) <= j
        /\ j < Cardinality({k \in DOMAIN m : m[k] <= x})

\* the linear-interpolation 95th percentile v_k + f*(v_(k+1) - v_k), with
\* k = floor(0.95*(n-1)) and f = 0.95*(n-1) - k, in units of 1/20
RefThreshold20(m) ==
    LET n == Cardinality(DOMAIN m)
        k == (19 * (n - 1)) \div 20
        f20 == (19 * (n - 1)) % 20
    IN IF f20 = 0 THEN 20 * OrderStat(m, k)
       ELSE 20 * OrderStat(m, k) + f20 * (OrderStat(m, k + 1) - OrderStat(m, k))

AfterSelection ==
    {"aggregate", "report", "meanmap", "persist_heads", "persist_maps", "done"}

C4_EmptyMappingHeaderOnly ==
    (Entered(5) /\ DOMAIN accumulated_attention = {}) =>
        failure = "none" /\ csv_file = <<CSV_HEADER>>

\* C5: when the impact grid and the SNR grid differ in shape the run aborts
\* before any head statistic record is built and before any artifact is
\* written.
C5_ShapeMismatchFatal ==
    (pc \notin {"lookup", "analyze"}
        /\ (impact_scores.layers # snr_values.layers
            \/ impact_scores.heads # snr_values.heads)) =>
        /\ pc \in {"table", "failed"}
        /\ head_stats = <<>>
        /\ written = {}

\* C6: a run with an allosteric site outside 1..length(sequence) fails at the
\* residue-name lookup, before the collaborator is called and before any
\* artifact is written, and no name is produced for an out-of-range position.
C6_SiteOutOfRangeFatal ==
    (\E k \in DOMAIN allosteric_res :
        allosteric_res[k] < 1 \/ allosteric_res[k] > Len(sequence)) =>
        /\ pc \in {"lookup", "failed"}
        /\ impact_scores = EmptyGrid
        /\ written = {}
        /\ \A k \in DOMAIN allosteric_res_3l :
              allosteric_res[k] >= 1 /\ allosteric_res[k] <= Len(sequence)

\* the head list of the record and the stack of the tensor record agree
RoundTrip ==
    /\ Len(maps_file) = Len(heads_file.sensitive_heads)
    /\ \A i \in DOMAIN maps_file :
          maps_file[i] = [layer |-> heads_file.sensitive_heads[i][1],
                          head |-> heads_file.sensitive_heads[i][2]]

\* C7 (as claimed): in every state of the output directory, whenever the
\* sensitive-head record and the attention-tensor record are both present and
\* non-empty, they have the same number of entries and the i-th map is the
\* map of the i-th listed head.
C7_RoundTripAlways ==
    (heads_file.exists /\ heads_file.sensitive_heads # <<>> /\ maps_file # <<>>) =>
        RoundTrip

\* C7 (amended): when a run has completed with at least one head selected,
\* both records are present and non-empty, they list that run's selection,
\* and they have the same number of entries with the i-th map the map of the
\* i-th listed head.
C7_RoundTripAfterCompletedRun ==
    (pc = "done" /\ sensitive_heads # <<>>) =>
        /\ heads_file.exists
        /\ heads_file.sensitive_heads = sensitive_heads
        /\ maps_file # <<>>
        /\ RoundTrip

\* C7 witness: a second run into a directory that already holds both records
\* completes with two heads selected.
C7_Witness ==
    /\ runs = 2
    /\ pc = "done"
    /\ Len(sensitive_heads) = 2
    /\ maps_file # <<>>

C9_MappingDomainValidated ==
    /\ (Entered(5) /\ \E k \in DOMAIN accumulated_attention :
                          k < 1 \/ k > Len(sequence)) =>
          pc = "failed" /\ Len(csv_file) <= 1
    /\ \A i \in DOMAIN csv_file :
          i > 1 => /\ csv_file[i][2] >= 1
                   /\ csv_file[i][2] <= Len(sequence)
                   /\ csv_file[i][1] = sequence[csv_file[i][2]]

\* stage b is entered only after stage a has been
After(b, a) ==
    \A j \in DOMAIN stages : stages[j] = b => \E i \in 1 .. j - 1 : stages[i] = a

NoStageTwice == \A i, j \in DOMAIN stages : i # j => stages[i] # stages[j]

\* C10 (as claimed): each stage runs at most once; the table (1) precedes the
\* significance test (2), which precedes the selection (3); the aggregation
\* (4) and the mean map (6) come after the selection and before the
\* percentile report (5); persistence (7) comes after selection and
\* aggregation.
C10_StageOrderClaimed ==
    /\ NoStageTwice
    /\ After(2, 1) /\ After(3, 2)
    /\ After(4, 3) /\ After(6, 3)
    /\ After(5, 4)
    /\ \A i, j \in DOMAIN stages : (stages[i] = 6 /\ stages[j] = 5) => i < j
    /\ After(7, 3) /\ After(7, 4)

\* C10 (amended): each stage runs at most once; the table precedes the
\* significance test, which precedes the selection; the aggregation comes
\* after the selection and before the percentile report; the mean map comes
\* after the selection and after the percentile report; persistence comes
\* after selection, aggregation and the report, and after the mean map when
\* there is one.
C10_StageOrder ==
    /\ NoStageTwice
    /\ After(2, 1) /\ After(3, 2)
    /\ After(4, 3) /\ After(6, 3)
    /\ After(5, 4)
    /\ After(6, 5)
    /\ After(7, 3) /\ After(7, 4) /\ After(7, 5)
    /\ \A i, j \in DOMAIN stages : (stages[i] = 6 /\ stages[j] = 7) => i < j

\* C10 witness: a finished run that went through all seven stages.
C10_Witness == pc = "done" /\ stages = <<1, 2, 3, 4, 5, 6, 7>>

====
